---- MODULE Spec2Model ----
(***************************************************************************)
(* chatgpt_code_review/query.py: the per-file review pipeline              *)
(* (analyze_code_files, analyze_code_file), the token estimator            *)
(* (get_num_tokens_from_messages) and the memoized completion wrapper      *)
(* (get_code_analysis).                                                    *)
(*                                                                         *)
(* A text (a Python str) is a sequence of fragments.  A fragment is a      *)
(* piece of text with a known tokenisation: " " is one space, "a" and "r"  *)
(* are one-token words, "L" is a long run of source code, and the fixed    *)
(* messages of the program are fragments of their own.  The empty str is   *)
(* the empty sequence.                                                     *)
(***************************************************************************)
EXTENDS Integers, Sequences, FiniteSets, TLC

VARIABLES
    fs,           \* the filesystem: path -> [readable, content]
    code_files,   \* the list handed to analyze_code_files
    idx,          \* position of the generator expression in code_files
    gen_state,    \* "running", "raised" (an exception left the generator), "done"
    n_yielded,    \* number of records the generator has yielded
    cache,        \* st.cache_data of get_code_analysis: code -> memoized return value
    answered,     \* history: code -> what get_code_analysis last returned for it
    remote_calls, \* history: number of openai.ChatCompletion.create calls so far
    call,         \* history: what the latest analyze_code_file call did
    tk_pc,        \* token estimator harness: "input" or "done"
    tk_messages,  \* token estimator harness: the messages argument
    tk_model,     \* token estimator harness: the model argument
    tk_result     \* token estimator harness: outcome of get_num_tokens_from_messages

vars == <<fs, code_files, idx, gen_state, n_yielded, cache, answered,
          remote_calls, call, tk_pc, tk_messages, tk_model, tk_result>>

pipeline_vars == <<fs, code_files, idx, gen_state, n_yielded, cache, answered,
                   remote_calls, call>>

tk_vars == <<tk_pc, tk_messages, tk_model, tk_result>>

(***************************************************************************)
(* Bounds of the model.                                                    *)
(***************************************************************************)
\* longest file content, in fragments
MaxContentLen == 2
\* longest list of paths handed to analyze_code_files
MaxFiles == 3
\* longest remote reply, in fragments
MaxRespLen == 2
\* tokens of the long source fragment "L": with the template around it, a
\* file holding just "L" leaves exactly the 200 tokens the wrapper asks for
BigFragTokens == 6580
\* longest messages list handed to the token estimator
MaxMsgs == 2
\* longest field value of a message, in fragments
MaxValLen == 2

(***************************************************************************)
(* Sequences over a set, up to a length.                                   *)
(***************************************************************************)
SeqUpTo(S, n) == UNION {[1..k -> S] : k \in 0..n}

(***************************************************************************)
(* tiktoken.  encoding_for_model maps a model name to an encoding and      *)
(* raises KeyError for a name it does not know; the estimator then falls   *)
(* back to cl100k_base.  An encoding splits a text into tokens: here each  *)
(* fragment has a token length and each encoding has pairs of fragments it *)
(* merges into one token, taken greedily from the left.                    *)
(***************************************************************************)
\* tokens of the prompt template before the interpolated code (about 5900
\* characters of fixed text)
TemplateHeadTokens == 1400
\* tokens of the prompt template after the interpolated code
TemplateTailTokens == 5

Models == {"gpt-3.5-turbo", "gpt-4", "gpt-3.5-turbo-0301", "gpt-4-0314",
           "gpt-4o-mini", "text-davinci-003", "my-model"}

TiktokenKnows(model) ==
    model \in {"gpt-3.5-turbo", "gpt-4", "gpt-3.5-turbo-0301", "gpt-4-0314",
               "gpt-4o-mini", "text-davinci-003"}

TiktokenEncodingFor(model) ==
    CASE model \in {"gpt-3.5-turbo", "gpt-3.5-turbo-0301", "gpt-4", "gpt-4-0314"}
            -> "cl100k_base"
      [] model = "gpt-4o-mini" -> "o200k_base"
      [] model = "text-davinci-003" -> "p50k_base"

\* lines 46-50: try encoding_for_model, except KeyError: cl100k_base
encoding_for_model(model) ==
    IF TiktokenKnows(model) THEN TiktokenEncodingFor(model) ELSE "cl100k_base"

FragTokens(frag) ==
    CASE frag = "L" -> BigFragTokens
      [] frag = "TEMPLATE_HEAD" -> TemplateHeadTokens
      [] frag = "TEMPLATE_TAIL" -> TemplateTailTokens
      [] OTHER -> 1

Merges(encoding, f, g) ==
    CASE encoding = "cl100k_base" -> f = "a" /\ g = "a"
      [] encoding = "o200k_base" -> (f = "a" /\ g = "a") \/ (f = " " /\ g = " ")
      [] OTHER -> FALSE

RECURSIVE EncodeLen(_, _)
\* len(encoding.encode(value))
EncodeLen(encoding, value) ==
    IF value = <<>> THEN 0
    ELSE IF Len(value) >= 2 /\ Merges(encoding, value[1], value[2])
         THEN 1 + EncodeLen(encoding, Tail(Tail(value)))
         ELSE FragTokens(value[1]) + EncodeLen(encoding, Tail(value))

(***************************************************************************)
(* get_num_tokens_from_messages (lines 44-89).  A message is a dict: a     *)
(* function from its keys to texts.  The outcome is a record: raised with  *)
(* the error's name, or ret = <<num_tokens>>; depth counts the recursive   *)
(* redirections taken.                                                     *)
(***************************************************************************)
NotImplementedError == "NotImplementedError"

AliasModels == {"gpt-3.5-turbo", "gpt-4"}

RedirectTarget_swapped(model) ==
    IF model = "gpt-3.5-turbo" THEN "gpt-4-0314" ELSE "gpt-3.5-turbo-0301"

\* lines 53-62: the dated variant an alias is redirected to
RedirectTarget(model) ==
    IF model = "gpt-3.5-turbo" THEN "gpt-3.5-turbo-0301" ELSE "gpt-4-0314"

ModelCosts_default(model) ==
    CASE model = "gpt-3.5-turbo-0301" ->
            [known |-> TRUE, tokens_per_message |-> 4, tokens_per_name |-> -1]
      [] OTHER ->
            [known |-> TRUE, tokens_per_message |-> 3, tokens_per_name |-> 1]

\* lines 63-76: the per-model costs, or the else branch that raises
ModelCosts(model) ==
    CASE model = "gpt-3.5-turbo-0301" ->
            [known |-> TRUE, tokens_per_message |-> 4, tokens_per_name |-> -1]
      [] model = "gpt-4-0314" ->
            [known |-> TRUE, tokens_per_message |-> 3, tokens_per_name |-> 1]
      [] model = "gpt-4o-mini" ->
            [known |-> TRUE, tokens_per_message |-> 3, tokens_per_name |-> 1]
      [] OTHER ->
            [known |-> FALSE, tokens_per_message |-> 0, tokens_per_name |-> 0]

NameCost_anykey(key, tokens_per_name) == tokens_per_name

\* lines 83-84: if key == "name": num_tokens += tokens_per_name
NameCost(key, tokens_per_name) == IF key = "name" THEN tokens_per_name ELSE 0

RECURSIVE ItemsTokens(_, _, _, _)
\* lines 81-84: the inner loop over message.items(), keys being those left
ItemsTokens(message, keys, encoding, tokens_per_name) ==
    IF keys = {} THEN 0
    ELSE LET key == CHOOSE k \in keys : TRUE
         IN EncodeLen(encoding, message[key]) + NameCost(key, tokens_per_name)
            + ItemsTokens(message, keys \ {key}, encoding, tokens_per_name)

RECURSIVE MessagesTokens(_, _, _)
\* lines 78-84: the loop over messages
MessagesTokens(messages, encoding, costs) ==
    IF messages = <<>> THEN 0
    ELSE costs.tokens_per_message
         + ItemsTokens(Head(messages), DOMAIN Head(messages), encoding,
                       costs.tokens_per_name)
         + MessagesTokens(Tail(messages), encoding, costs)

\* line 87: every reply is primed with <|start|>assistant<|message|>
ReplyPriming == 3

RECURSIVE get_num_tokens_from_messages(_, _)
get_num_tokens_from_messages(messages, model) ==
    LET encoding == encoding_for_model(model)
        costs == ModelCosts(model)
    IN IF model \in AliasModels
       THEN LET r == get_num_tokens_from_messages(messages, RedirectTarget(model))
            IN [r EXCEPT !.depth = @ + 1]
       ELSE IF ~costs.known
            THEN [raised |-> TRUE, error |-> NotImplementedError, ret |-> <<>>,
                  depth |-> 0]
            ELSE [raised |-> FALSE, error |-> "",
                  ret |-> <<MessagesTokens(messages, encoding, costs) + ReplyPriming>>,
                  depth |-> 0]

(***************************************************************************)
(* The token estimator on its own: Init draws the arguments, TkEstimate    *)
(* applies the function.                                                   *)
(***************************************************************************)
Roles == {<<"system">>}
Names == {<<"a">>}
ValueTexts == SeqUpTo({"a"}, MaxValLen)

\* what a key may hold: nothing (the key is absent) or one value
FieldChoices(values) == {<<>>} \cup {<<v>> : v \in values}

MakeMessage(r, c, n) ==
    LET keys == (IF r # <<>> THEN {"role"} ELSE {})
                \cup (IF c # <<>> THEN {"content"} ELSE {})
                \cup (IF n # <<>> THEN {"name"} ELSE {})
    IN [k \in keys |-> CASE k = "role" -> r[1]
                         [] k = "content" -> c[1]
                         [] k = "name" -> n[1]]

MessageSet ==
    {MakeMessage(r, c, n) : r \in FieldChoices(Roles),
                            c \in FieldChoices(ValueTexts),
                            n \in FieldChoices(Names)}

NoResult == [raised |-> FALSE, error |-> "", ret |-> <<>>, depth |-> 0]

TkInit ==
    /\ tk_pc = "input"
    /\ tk_messages \in SeqUpTo(MessageSet, MaxMsgs)
    /\ tk_model \in Models
    /\ tk_result = NoResult

\* one call get_num_tokens_from_messages(tk_messages, model=tk_model)
TkEstimate ==
    /\ tk_pc = "input"
    /\ tk_result' = get_num_tokens_from_messages(tk_messages, tk_model)
    /\ tk_pc' = "done"
    /\ UNCHANGED <<tk_messages, tk_model>>

(***************************************************************************)
(* get_code_analysis (lines 92-324).                                       *)
(***************************************************************************)
\* line 300
max_tokens == 8192
\* line 307
MinResponseTokens == 200

TooLongMsg == <<"The code file is too long to analyze. Please select a shorter file.">>

\* textwrap.dedent on one line of text: the template's own lines start at
\* column 0, so no margin is removed, and a line of only blanks is emptied
DedentLine(line) ==
    IF \A i \in 1..Len(line) : line[i] = " " THEN <<>> ELSE line

\* lines 95-295: dedent(f"...{code}..."), the code on lines of its own
BuildPrompt(code) == <<"TEMPLATE_HEAD">> \o DedentLine(code) \o <<"TEMPLATE_TAIL">>

RECURSIVE LStrip(_)
LStrip(text) ==
    IF text # <<>> /\ Head(text) = " " THEN LStrip(Tail(text)) ELSE text

RECURSIVE RStrip(_)
RStrip(text) ==
    IF text # <<>> /\ text[Len(text)] = " "
    THEN RStrip(SubSeq(text, 1, Len(text) - 1))
    ELSE text

\* line 324: assistant_response.strip()
Strip(text) == RStrip(LStrip(text))

TokensForResponse_reserve(tokens_in_messages) == max_tokens - tokens_in_messages - 1

\* line 301
TokensForResponse(tokens_in_messages) == max_tokens - tokens_in_messages

TooLong_negative(tokens_for_response) == tokens_for_response < 0

\* line 307
TooLong(tokens_for_response) == tokens_for_response < MinResponseTokens

\* line 296: the single system message that carries the prompt
Messages(code) == <<[role |-> <<"system">>, content |-> BuildPrompt(code)]>>

\* lines 312-318: the request handed to openai.ChatCompletion.create
Request(messages, tokens_for_response) ==
    [model |-> "gpt-4o-mini", messages |-> messages,
     max_tokens |-> tokens_for_response, n |-> 1, temperature |-> 0]

\* lines 307-324: the too-long return, else the remote call and its reply;
\* remote is what openai.ChatCompletion.create does if it is called: a reply,
\* or an error (raised by the call, or by response.choices[0] on a reply
\* with no choice)
Respond(remote, messages, tokens_in_messages, tokens_for_response) ==
    IF TooLong(tokens_for_response)
    THEN [raised |-> FALSE, error |-> "", value |-> TooLongMsg,
          tokens |-> <<tokens_in_messages>>, budget |-> <<tokens_for_response>>,
          requests |-> <<>>]
    ELSE [raised |-> ~remote.ok,
          error |-> IF remote.ok THEN "" ELSE remote.error,
          value |-> IF remote.ok THEN Strip(remote.content) ELSE <<>>,
          tokens |-> <<tokens_in_messages>>, budget |-> <<tokens_for_response>>,
          requests |-> <<Request(messages, tokens_for_response)>>]

\* lines 297-305: the estimate est of the messages' tokens, and the budget
Budget(remote, messages, est) ==
    IF est.raised
    THEN [raised |-> TRUE, error |-> est.error, value |-> <<>>,
          tokens |-> <<>>, budget |-> <<>>, requests |-> <<>>]
    ELSE Respond(remote, messages, est.ret[1], TokensForResponse(est.ret[1]))

\* the body of get_code_analysis, run on a cache miss
get_code_analysis_body(code, remote) ==
    Budget(remote, Messages(code),
           get_num_tokens_from_messages(Messages(code), "gpt-4o-mini"))

CacheHit_never(c, code) == FALSE

\* line 92: st.cache_data looks the argument up
CacheHit(c, code) == code \in DOMAIN c

CacheStore_none(c, code, value) == c

\* line 92: st.cache_data keeps the return value under the argument
CacheStore(c, code, value) == (code :> value) @@ c

\* a miss: what the body r did, its return value memoized (an exception is not)
Memoize(c, code, r) ==
    [raised |-> r.raised, error |-> r.error, value |-> r.value,
     tokens |-> r.tokens, budget |-> r.budget, requests |-> r.requests,
     cache_hit |-> FALSE,
     cache |-> IF r.raised THEN c ELSE CacheStore(c, code, r.value)]

\* get_code_analysis as decorated: a hit returns the memoized value and runs
\* nothing; a miss runs the body
get_code_analysis(code, c, remote) ==
    IF CacheHit(c, code)
    THEN [raised |-> FALSE, error |-> "", value |-> c[code], tokens |-> <<>>,
          budget |-> <<>>, requests |-> <<>>, cache_hit |-> TRUE, cache |-> c]
    ELSE Memoize(c, code, get_code_analysis_body(code, remote))

(***************************************************************************)
(* analyze_code_file (lines 15-38).                                        *)
(***************************************************************************)
NoCodeMsg == <<"No code found in file">>
ErrorPrefix == <<"Error analyzing code file: ">>

\* str(e)
Str(error) == <<error>>

NoCode_isNone(code_content) == FALSE

\* line 20: if not code_content
NoCode(code_content) == code_content = <<>>

ErrorAnalysis_bare(error) == Str(error)

\* line 32: f"Error analyzing code file: {e}"
ErrorAnalysis(error) == ErrorPrefix \o Str(error)

\* what a call has done before it does anything
Untouched(code_file, c) ==
    [code_file |-> code_file, started |-> TRUE, escaped |-> FALSE,
     code_content |-> <<>>, record |-> <<>>, gca_invoked |-> FALSE,
     cache_hit |-> FALSE, gca_raised |-> FALSE, error |-> "", tokens |-> <<>>,
     budget |-> <<>>, requests |-> <<>>, cache |-> c]

\* lines 34-38 (and 21-25): the returned dict
FileRecord(code_file, code_content, analysis) ==
    [code_file |-> code_file, code_snippet |-> code_content,
     recommendation |-> analysis]

\* lines 27-38: the try around get_code_analysis, whose outcome is g
Analyzed(code_file, code_content, g) ==
    [code_file |-> code_file, started |-> TRUE, escaped |-> FALSE,
     code_content |-> code_content,
     record |-> <<FileRecord(code_file, code_content,
                             IF g.raised THEN ErrorAnalysis(g.error) ELSE g.value)>>,
     gca_invoked |-> TRUE, cache_hit |-> g.cache_hit, gca_raised |-> g.raised,
     error |-> g.error, tokens |-> g.tokens, budget |-> g.budget,
     requests |-> g.requests, cache |-> g.cache]

\* lines 17-38 on the file as read
Read(code_file, file, c, remote) ==
    IF ~file.readable
    THEN [Untouched(code_file, c) EXCEPT !.escaped = TRUE, !.error = "OSError"]
    ELSE IF NoCode(file.content)
    THEN [Untouched(code_file, c) EXCEPT
              !.code_content = file.content,
              !.record = <<FileRecord(code_file, file.content, NoCodeMsg)>>]
    ELSE Analyzed(code_file, file.content,
                  get_code_analysis(file.content, c, remote))

\* the outcome of analyze_code_file(code_file): escaped when open/read raised
\* (they stand outside the try), else the returned dict in record; with the
\* cache as the call leaves it and what get_code_analysis did
analyze_code_file(code_file, fsys, c, remote) ==
    Read(code_file, fsys[code_file], c, remote)

(***************************************************************************)
(* The batch: analyze_code_files (lines 10-12) returns a generator         *)
(* expression; the caller draws the records from it one by one.            *)
(***************************************************************************)
Paths == {"p1", "p2"}
ContentAlphabet == {" ", "L"}
Contents == SeqUpTo(ContentAlphabet, MaxContentLen)
FileStates == {[readable |-> TRUE, content |-> t] : t \in Contents}
              \cup {[readable |-> FALSE, content |-> <<>>]}

ReplyAlphabet == {"r", " "}
RemoteErrors == {"Rate limit reached", "list index out of range"}
RemoteOutcomes ==
    {[ok |-> TRUE, content |-> t, error |-> ""] : t \in SeqUpTo(ReplyAlphabet, MaxRespLen)}
    \cup {[ok |-> FALSE, content |-> <<>>, error |-> e] : e \in RemoteErrors}

NoCall == [code_file |-> "", started |-> FALSE, escaped |-> FALSE,
           code_content |-> <<>>, record |-> <<>>, gca_invoked |-> FALSE,
           cache_hit |-> FALSE, gca_raised |-> FALSE, error |-> "",
           tokens |-> <<>>, budget |-> <<>>, requests |-> <<>>,
           was_answered |-> FALSE, prior_answer |-> <<>>]

PipelineInit ==
    /\ fs \in [Paths -> FileStates]
    /\ code_files \in SeqUpTo(Paths, MaxFiles)
    /\ idx = 1
    /\ gen_state = "running"
    /\ n_yielded = 0
    /\ cache = <<>>
    /\ answered = <<>>
    /\ remote_calls = 0
    /\ call = NoCall

\* the generator takes the outcome r of one analyze_code_file call: it yields
\* the record, or the exception leaves it and it is finished
Yield(r) ==
    /\ call' = [code_file |-> r.code_file, started |-> TRUE,
                escaped |-> r.escaped, code_content |-> r.code_content,
                record |-> r.record, gca_invoked |-> r.gca_invoked,
                cache_hit |-> r.cache_hit, gca_raised |-> r.gca_raised,
                error |-> r.error, tokens |-> r.tokens, budget |-> r.budget,
                requests |-> r.requests,
                was_answered |-> r.code_content \in DOMAIN answered,
                prior_answer |-> IF r.code_content \in DOMAIN answered
                                 THEN <<answered[r.code_content]>> ELSE <<>>]
    /\ cache' = r.cache
    /\ answered' = IF r.gca_invoked /\ ~r.gca_raised
                   THEN (r.code_content :> r.record[1].recommendation) @@ answered
                   ELSE answered
    /\ remote_calls' = remote_calls + Len(r.requests)
    /\ gen_state' = IF r.escaped THEN "raised" ELSE "running"
    /\ n_yielded' = IF r.escaped THEN n_yielded ELSE n_yielded + 1

\* next() on the generator: one analyze_code_file call on the next path
AnalyzeNext ==
    /\ gen_state = "running"
    /\ idx <= Len(code_files)
    /\ \E remote \in RemoteOutcomes :
         Yield(analyze_code_file(code_files[idx], fs, cache, remote))
    /\ idx' = idx + 1
    /\ UNCHANGED <<fs, code_files>>

\* next() on the generator past the last path: StopIteration
Exhaust ==
    /\ gen_state = "running"
    /\ idx > Len(code_files)
    /\ gen_state' = "done"
    /\ UNCHANGED <<fs, code_files, idx, n_yielded, cache, answered, remote_calls, call>>

PipelineIdle ==
    /\ fs = [p \in Paths |-> [readable |-> FALSE, content |-> <<>>]]
    /\ code_files = <<>>
    /\ idx = 1
    /\ gen_state = "done"
    /\ n_yielded = 0
    /\ cache = <<>>
    /\ answered = <<>>
    /\ remote_calls = 0
    /\ call = NoCall

TkIdle ==
    /\ tk_pc = "done"
    /\ tk_messages = <<>>
    /\ tk_model = "gpt-4o-mini"
    /\ tk_result = NoResult

(***************************************************************************)
(* The pipeline.                                                           *)
(***************************************************************************)
Init == PipelineInit /\ TkIdle

Next ==
    \/ AnalyzeNext /\ UNCHANGED tk_vars
    \/ Exhaust /\ UNCHANGED tk_vars

Spec == Init /\ [][Next]_vars

(***************************************************************************)
(* The token estimator.                                                    *)
(***************************************************************************)
InitTok == TkInit /\ PipelineIdle

NextTok == TkEstimate /\ UNCHANGED pipeline_vars

SpecTok == InitTok /\ [][NextTok]_vars

(***************************************************************************)
(* Properties of the pipeline (under Spec).  call describes the latest     *)
(* analyze_code_file call; Returned says that it returned its dict.        *)
(***************************************************************************)
Returned == call.started /\ ~call.escaped

Recommendation == call.record[1].recommendation

\* C1: a call of analyze_code_file on a file whose content is empty returns
\* the recommendation "No code found in file", and neither get_code_analysis
\* nor the remote endpoint is invoked during that call.
C1_EmptyFileShortCircuits ==
    (call.started /\ fs[call.code_file].readable
                  /\ fs[call.code_file].content = <<>>)
    => /\ call.record # <<>>
       /\ Recommendation = <<"No code found in file">>
       /\ ~call.gca_invoked
       /\ call.requests = <<>>

\* C1 witness: an empty file has been analyzed after a remote call was made
\* for an earlier file.
C1_Witness ==
    /\ call.started
    /\ fs[call.code_file].readable
    /\ fs[call.code_file].content = <<>>
    /\ call.record # <<>>
    /\ remote_calls > 0

\* C2 (as claimed): no exception escapes the single-file boundary, and once
\* the batch is over every input path has yielded a record.
C2_EveryPathYieldsARecord ==
    /\ gen_state # "raised"
    /\ gen_state = "done" => n_yielded = Len(code_files)

\* C3 (as claimed): when get_code_analysis fails on a non-empty file, the call
\* returns a record with the same path and content whose recommendation is
\* the stringified error, without a second remote call.
C3_RecommendationIsTheError ==
    (call.started /\ call.gca_raised)
    => /\ Returned
       /\ call.record[1].code_file = call.code_file
       /\ call.record[1].code_snippet = fs[call.code_file].content
       /\ Recommendation = <<call.error>>
       /\ Len(call.requests) <= 1

\* C3 (amended): when get_code_analysis fails on a non-empty file, the call
\* returns a record with the same path and content whose recommendation is
\* "Error analyzing code file: " followed by the stringified error, the
\* generator goes on, and the remote call is not retried.
C3_ErrorBecomesRecommendation ==
    (call.started /\ call.gca_raised)
    => /\ Returned
       /\ gen_state # "raised"
       /\ call.record[1].code_file = call.code_file
       /\ call.record[1].code_snippet = fs[call.code_file].content
       /\ Recommendation = <<"Error analyzing code file: ", call.error>>
       /\ Len(call.requests) <= 1

\* C3 witness: the remote call of a non-empty file has raised.
C3_Witness ==
    /\ call.started
    /\ call.gca_raised
    /\ call.code_content # <<>>
    /\ call.error = "Rate limit reached"
    /\ Len(call.requests) = 1

\* C4: whenever the remaining budget is below 200 the wrapper returns the
\* "too long" message and the remote endpoint is not called; the remote
\* endpoint is only called with a remaining budget of at least 200.
C4_BudgetGate ==
    (call.started /\ call.budget # <<>>)
    => /\ call.budget[1] < 200
          => (call.requests = <<>> /\ ~call.gca_raised
              /\ Recommendation = TooLongMsg)
       /\ call.requests # <<>> => call.budget[1] >= 200

\* C4 witness: a file left a budget below 200 (and at least 0) and got the
\* "too long" message, after an earlier file went to the remote endpoint.
C4_Witness ==
    /\ call.started
    /\ call.budget # <<>>
    /\ call.budget[1] < 200
    /\ call.budget[1] >= 0
    /\ call.requests = <<>>
    /\ remote_calls > 0

\* C5: once get_code_analysis has returned a result for a text, every later
\* call with the same text returns that result and issues no remote call,
\* whatever calls on other texts lie between.
C5_MemoizedResultIsReused ==
    (call.started /\ call.was_answered)
    => /\ Returned
       /\ Recommendation = call.prior_answer[1]
       /\ call.requests = <<>>

\* C5 witness: a text is analyzed a second time after another text was
\* analyzed in between, both having got a result.
C5_Witness ==
    /\ call.started
    /\ call.was_answered
    /\ idx = 4
    /\ code_files[1] = code_files[3]
    /\ fs[code_files[2]].content # fs[code_files[3]].content
    /\ fs[code_files[2]].content \in DOMAIN answered
    /\ remote_calls = 2

\* C6 (as claimed): each analysis of a non-empty file issues exactly one
\* remote call.
C6_ExactlyOneRemoteCall ==
    (Returned /\ call.code_content # <<>>) => Len(call.requests) = 1

\* C6 (amended): each analysis of a non-empty file issues at most one remote
\* call: exactly one when get_code_analysis has not yet returned a result for
\* the text and the remaining budget is at least 200, and none otherwise.
C6_AtMostOneRemoteCall ==
    (Returned /\ call.code_content # <<>>)
    => /\ Len(call.requests) <= 1
       /\ Len(call.requests) = 1
          <=> (~call.was_answered /\ call.budget # <<>> /\ call.budget[1] >= 200)

\* C6 witness: a non-empty file was analyzed with one remote call, and the
\* records so far outnumber the remote calls.
C6_Witness ==
    /\ Returned
    /\ call.code_content # <<>>
    /\ Len(call.requests) = 1
    /\ remote_calls < n_yielded

\* C10 (as claimed): the token budget is a non-negative integer equal to
\* 8192 minus the estimated tokens of the outgoing message, and when it is
\* passed to the remote call, prompt tokens plus it make 8192.
C10_BudgetNonNegative ==
    (call.started /\ call.budget # <<>>)
    => /\ call.budget[1] >= 0
       /\ call.budget[1] = 8192 - call.tokens[1]
       /\ call.requests # <<>>
          => call.tokens[1] + call.requests[1].max_tokens = 8192

\* C10 (amended): the token budget is an integer, negative for a message
\* estimated above 8192 tokens, equal to 8192 minus the estimated tokens of
\* the outgoing message; when it is passed to the remote call as the
\* max-response-token value it is non-negative, and the estimated tokens of
\* the message sent plus that value make 8192.
C10_BudgetIsCeilingMinusPrompt ==
    (call.started /\ call.budget # <<>>)
    => /\ call.tokens # <<>>
       /\ call.budget[1] \in Int
       /\ call.budget[1] = 8192 - call.tokens[1]
       /\ call.requests # <<>>
          => /\ call.requests[1].max_tokens = call.budget[1]
             /\ call.requests[1].max_tokens >= 0
             /\ get_num_tokens_from_messages(call.requests[1].messages,
                                             "gpt-4o-mini").ret[1]
                + call.requests[1].max_tokens = 8192

\* C10 witness: a budget was computed and passed to the remote call.
C10_Witness ==
    /\ call.started
    /\ call.budget # <<>>
    /\ call.requests # <<>>
    /\ call.requests[1].max_tokens = call.budget[1]
    /\ call.code_content # <<>>

(***************************************************************************)
(* Properties of the token estimator (under SpecTok).                      *)
(***************************************************************************)
Estimated == tk_pc = "done" /\ tk_result # NoResult

\* C7: with an alias model name the estimator returns the count of the
\* concrete dated variant ("gpt-3.5-turbo" as "gpt-3.5-turbo-0301", "gpt-4"
\* as "gpt-4-0314"), after one redirection.
C7_AliasCountsAsDatedVariant ==
    /\ (Estimated /\ tk_model = "gpt-3.5-turbo")
       => /\ ~tk_result.raised
          /\ tk_result.depth = 1
          /\ tk_result.ret
             = get_num_tokens_from_messages(tk_messages, "gpt-3.5-turbo-0301").ret
    /\ (Estimated /\ tk_model = "gpt-4")
       => /\ ~tk_result.raised
          /\ tk_result.depth = 1
          /\ tk_result.ret
             = get_num_tokens_from_messages(tk_messages, "gpt-4-0314").ret

\* C7 witness: the estimate of two messages, one with a name, under the
\* alias "gpt-3.5-turbo".
C7_Witness ==
    /\ Estimated
    /\ tk_model = "gpt-3.5-turbo"
    /\ Len(tk_messages) = 2
    /\ "name" \in DOMAIN tk_messages[1]
    /\ "name" \notin DOMAIN tk_messages[2]
    /\ tk_result.depth = 1

RecognizedModels == {"gpt-3.5-turbo", "gpt-4", "gpt-3.5-turbo-0301",
                     "gpt-4-0314", "gpt-4o-mini"}

\* C8: for a model name outside the recognized set the estimator raises the
\* "not implemented" failure and returns no count, whether or not the
\* tokenizer lookup knows the name.
C8_UnrecognizedModelRaises ==
    (tk_pc = "done" /\ tk_model \notin RecognizedModels)
    => /\ tk_result.raised
       /\ tk_result.error = "NotImplementedError"
       /\ tk_result.ret = <<>>

\* C8 witness: a model name the tokenizer lookup does not know (the generic
\* encoding is used) has raised, on a non-empty list of messages.
C8_Witness ==
    /\ tk_pc = "done"
    /\ tk_model \notin RecognizedModels
    /\ ~TiktokenKnows(tk_model)
    /\ tk_messages # <<>>
    /\ tk_result.raised

C9_FieldLen(message, key, model) ==
    IF key \in DOMAIN message
    THEN EncodeLen(encoding_for_model(model), message[key])
    ELSE 0

C9_MessageCount(message, model) ==
    (IF model = "gpt-3.5-turbo-0301" THEN 4 ELSE 3)
    + C9_FieldLen(message, "role", model)
    + C9_FieldLen(message, "content", model)
    + C9_FieldLen(message, "name", model)
    + (IF "name" \in DOMAIN message
       THEN (IF model = "gpt-3.5-turbo-0301" THEN -1 ELSE 1)
       ELSE 0)

C9_Sum[i \in 0..(MaxMsgs + 1)] ==
    IF i = 0 \/ i > Len(tk_messages) THEN 0
    ELSE C9_MessageCount(tk_messages[i], tk_model) + C9_Sum[i - 1]

\* C9: for a recognized concrete model the estimator returns 3 plus, over all
\* messages, the model's per-message overhead (4 for gpt-3.5-turbo-0301, else
\* 3), the encoded length of every field value, and the model's per-name cost
\* (-1 for gpt-3.5-turbo-0301, else 1) for each message with a "name" field;
\* an empty list yields 3.
C9_CountFormula ==
    (Estimated /\ tk_model \in {"gpt-3.5-turbo-0301", "gpt-4-0314", "gpt-4o-mini"})
    => /\ ~tk_result.raised
       /\ tk_result.ret = <<3 + C9_Sum[Len(tk_messages)]>>
       /\ tk_messages = <<>> => tk_result.ret = <<3>>

\* C9 witness: the estimate for gpt-3.5-turbo-0301 of two messages, one with
\* a name and a two-fragment content.
C9_Witness ==
    /\ Estimated
    /\ tk_model = "gpt-3.5-turbo-0301"
    /\ Len(tk_messages) = 2
    /\ DOMAIN tk_messages[1] = {"role", "content", "name"}
    /\ Len(tk_messages[1].content) = 2
    /\ "name" \notin DOMAIN tk_messages[2]
    /\ ~tk_result.raised

====
